---------------------------- MODULE Spec2Model ----------------------------
(***************************************************************************)
(* Modal dialog lifecycle of CustomCTkDialog/custom_ctk_dialog.py:         *)
(* Dialog.prompt, Dialog.confirm, Dialog.selection and Dialog.alert, the   *)
(* blocking wait _block_process_until_result, the teardown _safe_finish    *)
(* and the UI callbacks that write the shared result slot.                 *)
(*                                                                         *)
(* One dialog call is followed from the call to its return or raise.  The  *)
(* host toolkit is modelled by what the code relies on:                    *)
(*   - every window.update() handles any number of pending user events,    *)
(*     so several callbacks may run before the wait loop looks at the      *)
(*     result slot again;                                                  *)
(*   - an exception raised inside a Tk callback is caught and reported by  *)
(*     tkinter's CallWrapper, it does not reach the caller of update();    *)
(*   - closing a window that registered no WM_DELETE_WINDOW handler        *)
(*     destroys it, and every later Tk call on it raises TclError;         *)
(*   - selected_indices is a CPython set of small ints: its iteration      *)
(*     order is the slot order of the set's open-addressing hash table.    *)
(***************************************************************************)
EXTENDS Integers, Sequences, FiniteSets, TLC

(***************************************************************************)
(* Bounds of the model.                                                    *)
(***************************************************************************)
MaxCandidates == 9      \* longest candidate list passed to selection
MaxTextLen == 3         \* longest text typed into the prompt entry
MaxEvents == 4          \* user events handled during one dialog call
MaxMessageLen == 2      \* longest message passed to a dialog call
MaxExcess == 3          \* longest message displayed: MESSAGE_MAX_LENGTH + MaxExcess
MaxStdoutLen == 5       \* longest standard output of the folder picker process

(***************************************************************************)
(* Program constants.                                                      *)
(***************************************************************************)
MESSAGE_MAX_LENGTH == 500

\* CPython's setobject.c parameters behind `selected_indices: set[int]`
PySet_MINSIZE == 8
LINEAR_PROBES == 9
PERTURB_SHIFT == 5

EMPTY == -1             \* unused hash-table slot
DUMMY == -2             \* slot of a removed key

(***************************************************************************)
(* Values.                                                                 *)
(***************************************************************************)
Chars == {" ", "a"}

RECURSIVE SeqsUpTo(_, _)
SeqsUpTo(S, n) ==
    IF n = 0 THEN {<<>>}
    ELSE LET shorter == SeqsUpTo(S, n - 1)
         IN shorter \cup {Append(s, c) : s \in {t \in shorter : Len(t) = n - 1}, c \in S}

Texts == SeqsUpTo(Chars, MaxTextLen)

\* Optional[str]: None or a string (a sequence of characters)
NoneStr == [none |-> TRUE, text |-> <<>>]
Str(t) == [none |-> FALSE, text |-> t]
Messages == {NoneStr} \cup {Str(t) : t \in SeqsUpTo({"m"}, MaxMessageLen)}

\* messages around the display limit; the character depends on the position
Letters == <<"m", "n", "o">>
LongMessage(length, phase) ==
    [i \in 1..length |-> Letters[((i + phase) % Len(Letters)) + 1]]
DisplayLengths ==
    (0..2) \cup ((MESSAGE_MAX_LENGTH - 3)..(MESSAGE_MAX_LENGTH + MaxExcess))
DisplayMessages ==
    {Str(LongMessage(length, phase)) : length \in DisplayLengths,
                                       phase \in 0..(Len(Letters) - 1)}

\* Python truthiness of an Optional[str]: `not message`
Falsy(m) == m.none \/ m.text = <<>>

\* candidate lists: list index i (0-based) holds the item 100 + i
Item(i) == 100 + i
Candidates(n) == [k \in 1..n |-> Item(k - 1)]
CandidateCounts == {0, 1, 2, MaxCandidates}

\* the errors the code raises
ErrMessageRequired == "ValueError: A message must be provided for input dialogs."
ErrCanceled == "ValueError: Input required: Dialog was canceled."
ErrBlankInput == "ValueError: Input required: blank input."
ErrSelectionsNone == "ValueError: The 'selections' parameter cannot be None."
ErrSelectionRequired == "ValueError: Selection required."
ErrAlertMessage == "ValueError: Alert message must be provided."
ErrLenOfNone == "TypeError: object of type 'NoneType' has no len()"
ErrIndex == "IndexError: list index out of range"
ErrZeroDivision == "ZeroDivisionError: integer modulo by zero"
ErrTcl == "TclError: application has been destroyed"
NoError == ""

\* the spec's error taxonomy in terms of the errors the code raises
InvalidArgument == {ErrMessageRequired, ErrSelectionsNone, ErrAlertMessage}
DialogCancelled == {ErrCanceled}
SelectionRequired == {ErrSelectionRequired}

(***************************************************************************)
(* str.strip(): drop leading and trailing whitespace.                      *)
(***************************************************************************)
RECURSIVE lstrip(_)
lstrip(t) == IF t # <<>> /\ Head(t) = " " THEN lstrip(Tail(t)) ELSE t

RECURSIVE rstrip(_)
rstrip(t) ==
    IF t # <<>> /\ t[Len(t)] = " " THEN rstrip(SubSeq(t, 1, Len(t) - 1)) ELSE t

\* a strip that forgets the trailing whitespace
strip_lstrip_only(t) == lstrip(t)

strip(t) == rstrip(lstrip(t))

(***************************************************************************)
(* Dialog._truncate_message                                                *)
(***************************************************************************)
\* a truncation that forgets to leave room for the ellipsis
_truncate_message_keeps_max_chars(message, max_chars) ==
    IF Len(message) <= max_chars THEN message
    ELSE SubSeq(message, 1, max_chars) \o <<".", ".", ".">>

_truncate_message(message, max_chars) ==
    IF Len(message) <= max_chars THEN message
    ELSE SubSeq(message, 1, max_chars - 3) \o <<".", ".", ".">>

(***************************************************************************)
(* selected_indices: a CPython set of non-negative ints (hash(i) = i).     *)
(* table[slot] is EMPTY, DUMMY or the key stored in the slot.              *)
(***************************************************************************)
set_new == [mask |-> PySet_MINSIZE - 1, fill |-> 0, used |-> 0,
            table |-> [i \in 0..(PySet_MINSIZE - 1) |-> EMPTY]]

\* `index in selected_indices`
set_contains(so, key) == \E i \in DOMAIN so.table : so.table[i] = key

\* `not selected_indices`
set_is_empty(so) == so.used = 0

\* iteration: the active keys in slot order
RECURSIVE set_iter_from(_, _)
set_iter_from(so, i) ==
    IF i > so.mask THEN <<>>
    ELSE IF so.table[i] >= 0 THEN <<so.table[i]>> \o set_iter_from(so, i + 1)
    ELSE set_iter_from(so, i + 1)

set_iter(so) == set_iter_from(so, 0)

set_elements(so) == {so.table[i] : i \in {j \in DOMAIN so.table : so.table[j] >= 0}}

Probes(i, mask) == IF i + LINEAR_PROBES <= mask THEN LINEAR_PROBES ELSE 0

NextProbe(i, perturb, mask) == (i * 5 + 1 + perturb) % (mask + 1)

ShiftPerturb(perturb) == perturb \div (2 ^ PERTURB_SHIFT)

\* set_insert_clean: the first unused slot of the key's probe sequence
RECURSIVE set_insert_clean_slot(_, _, _, _, _)
set_insert_clean_slot(table, mask, i, j, perturb) ==
    IF table[i + j] = EMPTY THEN i + j
    ELSE IF j < Probes(i, mask)
         THEN set_insert_clean_slot(table, mask, i, j + 1, perturb)
         ELSE set_insert_clean_slot(table, mask,
                  NextProbe(i, ShiftPerturb(perturb), mask), 0, ShiftPerturb(perturb))

set_insert_clean(table, mask, key) ==
    [table EXCEPT ![set_insert_clean_slot(table, mask, key % (mask + 1), 0, key)] = key]

RECURSIVE set_new_size(_, _)
set_new_size(newsize, minused) ==
    IF newsize <= minused THEN set_new_size(newsize * 2, minused) ELSE newsize

RECURSIVE set_reinsert(_, _, _, _, _)
set_reinsert(oldtable, oldmask, i, newtable, newmask) ==
    IF i > oldmask THEN newtable
    ELSE IF oldtable[i] >= 0
         THEN set_reinsert(oldtable, oldmask, i + 1,
                  set_insert_clean(newtable, newmask, oldtable[i]), newmask)
         ELSE set_reinsert(oldtable, oldmask, i + 1, newtable, newmask)

\* set_table_resize: a fresh table without dummies, refilled in slot order
set_table_resize(so, minused) ==
    LET newsize == set_new_size(PySet_MINSIZE, minused)
        blank == [i \in 0..(newsize - 1) |-> EMPTY]
    IN [mask |-> newsize - 1, fill |-> so.used, used |-> so.used,
        table |-> set_reinsert(so.table, so.mask, 0, blank, newsize - 1)]

\* the probe loop of set_add_entry: stops at the key or at an unused slot,
\* remembering the last dummy slot it passed (freeslot, -1 if none)
RECURSIVE set_add_probe(_, _, _, _, _, _, _)
set_add_probe(table, mask, key, i, j, perturb, freeslot) ==
    LET entry == table[i + j]
        free == IF entry = DUMMY THEN i + j ELSE freeslot
    IN IF entry = EMPTY THEN [active |-> FALSE, slot |-> i + j, freeslot |-> freeslot]
       ELSE IF entry = key THEN [active |-> TRUE, slot |-> i + j, freeslot |-> freeslot]
       ELSE IF j < Probes(i, mask)
            THEN set_add_probe(table, mask, key, i, j + 1, perturb, free)
            ELSE set_add_probe(table, mask, key,
                     NextProbe(i, ShiftPerturb(perturb), mask), 0,
                     ShiftPerturb(perturb), free)

\* selected_indices.add(key)
set_add(so, key) ==
    LET found == set_add_probe(so.table, so.mask, key, key % (so.mask + 1), 0, key, -1)
        grown == [so EXCEPT !.fill = @ + 1, !.used = @ + 1, !.table[found.slot] = key]
    IN IF found.active THEN so
       ELSE IF found.freeslot # -1
            THEN [so EXCEPT !.used = @ + 1, !.table[found.freeslot] = key]
       ELSE IF grown.fill * 5 < grown.mask * 3 THEN grown
       ELSE set_table_resize(grown, IF grown.used > 50000 THEN grown.used * 2
                                                           ELSE grown.used * 4)

\* selected_indices.remove(key), for a key that is in the set
set_remove(so, key) ==
    LET slot == CHOOSE i \in DOMAIN so.table : so.table[i] = key
    IN [so EXCEPT !.used = @ - 1, !.table[slot] = DUMMY]

\* selected_indices.clear(): back to the empty minimum-size table
set_clear(so) == set_new

(***************************************************************************)
(* json.loads on the picker's output, over the characters [ ] , " a and    *)
(* the space: a value is a string or an array of values.                   *)
(***************************************************************************)
StdoutChars == {"[", "]", ",", "\"", "a", " "}
Stdouts == SeqsUpTo(StdoutChars, MaxStdoutLen)
Stderrs == {<<>>, <<"e", " ">>}

JsonStr(t) == [type |-> "str", s |-> t, items |-> <<>>]
JsonList(l) == [type |-> "list", s |-> <<>>, items |-> l]
JsonFail == [ok |-> FALSE, end |-> 0, val |-> JsonStr(<<>>)]
JsonOk(end, val) == [ok |-> TRUE, end |-> end, val |-> val]

\* the first position from p on that holds no whitespace
RECURSIVE SkipWs(_, _)
SkipWs(t, p) == IF p <= Len(t) /\ t[p] = " " THEN SkipWs(t, p + 1) ELSE p

\* the string whose opening quote is just before p
RECURSIVE scanstring(_, _, _)
scanstring(t, begin, p) ==
    IF p > Len(t) THEN JsonFail
    ELSE IF t[p] = "\"" THEN JsonOk(p + 1, JsonStr(SubSeq(t, begin, p - 1)))
    ELSE scanstring(t, begin, p + 1)

RECURSIVE scan_once(_, _)
RECURSIVE JSONArrayItems(_, _, _)

\* the array whose opening bracket is just before p
JSONArray(t, p) ==
    LET first == SkipWs(t, p)
    IN IF first <= Len(t) /\ t[first] = "]" THEN JsonOk(first + 1, JsonList(<<>>))
       ELSE JSONArrayItems(t, first, <<>>)

JSONArrayItems(t, p, items) ==
    LET value == scan_once(t, p)
        next == SkipWs(t, value.end)
    IN IF ~value.ok \/ next > Len(t) THEN JsonFail
       ELSE IF t[next] = "]" THEN JsonOk(next + 1, JsonList(Append(items, value.val)))
       ELSE IF t[next] # "," THEN JsonFail
       ELSE JSONArrayItems(t, SkipWs(t, next + 1), Append(items, value.val))

scan_once(t, p) ==
    IF p > Len(t) THEN JsonFail
    ELSE IF t[p] = "\"" THEN scanstring(t, p + 1, p + 1)
    ELSE IF t[p] = "[" THEN JSONArray(t, p + 1)
    ELSE JsonFail

\* json.loads: one value, whitespace around it, nothing else
json_loads(t) ==
    LET value == scan_once(t, SkipWs(t, 1))
    IN IF value.ok /\ SkipWs(t, value.end) = Len(t) + 1 THEN value ELSE JsonFail

(***************************************************************************)
(* State of one dialog call.                                               *)
(***************************************************************************)
VARIABLES
    pc,                  \* "idle", "entering", "awaiting", "exiting", "done"
    call,                \* the arguments of the dialog call
    windowExists,        \* dialog_window has been created and not destroyed
    windowsCreated,      \* number of _create_new_window runs of this call
    truncated_message,   \* the text of message_label
    result_container,    \* result_container["value"]
    input_entry,         \* the content of the prompt's entry widget
    selected_indices,    \* the set of selected candidate indices
    active_focus_index,  \* the keyboard focus of the selection list
    item_labels_list,    \* the background of every candidate label
    callback_error,      \* what the last UI callback raised (reported by Tk)
    lastEvent,           \* the user event handled last
    numEvents,           \* number of user events handled in this call
    outcome              \* how the call ended

\* State of one folder_picker call.
VARIABLES
    picker_pc,           \* "idle", "spawning", "done"
    command,             \* the command line of the picker process
    process,             \* what became of the picker process
    printed,             \* what folder_picker printed
    picked               \* how folder_picker ended

dialogState == <<pc, call, windowExists, windowsCreated, truncated_message,
                 result_container, input_entry, selected_indices,
                 active_focus_index, item_labels_list, callback_error, lastEvent,
                 numEvents, outcome>>

pickerState == <<picker_pc, command, process, printed, picked>>

vars == <<pc, call, windowExists, windowsCreated, truncated_message,
          result_container, input_entry, selected_indices, active_focus_index,
          item_labels_list, callback_error, lastEvent, numEvents, outcome,
          picker_pc, command, process, printed, picked>>

\* result_container["value"]
SlotNone == [tag |-> "None", s |-> <<>>]
CANCEL_SIGNAL == [tag |-> "CANCEL_SIGNAL", s |-> <<>>]
SlotTrue == [tag |-> "True", s |-> <<>>]
SlotStr(t) == [tag |-> "str", s |-> t]
SlotList(l) == [tag |-> "list", s |-> l]

\* the end of a call: a returned value or a raised error
Running == [tag |-> "running", type |-> "", err |-> NoError, b |-> FALSE, s |-> <<>>]
Raise(e) == [tag |-> "raise", type |-> "", err |-> e, b |-> FALSE, s |-> <<>>]
ReturnNone == [tag |-> "return", type |-> "None", err |-> NoError, b |-> FALSE, s |-> <<>>]
ReturnBool(v) == [tag |-> "return", type |-> "bool", err |-> NoError, b |-> v, s |-> <<>>]
ReturnStr(t) == [tag |-> "return", type |-> "str", err |-> NoError, b |-> FALSE, s |-> t]
ReturnList(l) == [tag |-> "return", type |-> "list", err |-> NoError, b |-> FALSE, s |-> l]

\* subprocess.run: the process could not be started, or it ran and exited
NoProcess == [launch |-> "none", returncode |-> 0, stdout |-> <<>>, stderr |-> <<>>]
LaunchFailed(e) == [launch |-> e, returncode |-> 0, stdout |-> <<>>, stderr |-> <<>>]
Exited(returncode, stdout, stderr) ==
    [launch |-> "started", returncode |-> returncode, stdout |-> stdout,
     stderr |-> stderr]
ProcessOutcomes ==
    {LaunchFailed("FileNotFoundError"), LaunchFailed("PermissionError")}
    \cup {Exited(1, <<>>, stderr) : stderr \in Stderrs}
    \cup {Exited(0, stdout, stderr) : stdout \in Stdouts, stderr \in Stderrs}

\* the end of folder_picker: a returned list of JSON values or a raised error
PickerRunning == [tag |-> "running", err |-> NoError, list |-> <<>>]
PickerReturns(l) == [tag |-> "return", err |-> NoError, list |-> l]
PickerRaises(e) == [tag |-> "raise", err |-> e, list |-> <<>>]

NoCall == [shape |-> "none", message |-> NoneStr, selections_none |-> FALSE,
           selections |-> <<>>, multiple |-> FALSE, optional |-> FALSE]

Init ==
    /\ pc = "idle"
    /\ call = NoCall
    /\ windowExists = FALSE
    /\ windowsCreated = 0
    /\ truncated_message = <<>>
    /\ result_container = SlotNone
    /\ input_entry = <<>>
    /\ selected_indices = set_new
    /\ active_focus_index = 0
    /\ item_labels_list = <<>>
    /\ callback_error = NoError
    /\ lastEvent = "none"
    /\ numEvents = 0
    /\ outcome = Running
    /\ picker_pc = "idle"
    /\ command = <<>>
    /\ process = NoProcess
    /\ printed = <<>>
    /\ picked = PickerRunning

(***************************************************************************)
(* Construction: the dialog functions up to the blocking wait.             *)
(***************************************************************************)
\* update_selection_visuals: selected wins over focused
update_selection_visuals(labels, selected, focus) ==
    [k \in 1..Len(labels) |->
        IF set_contains(selected, k - 1) THEN "selection_color"
        ELSE IF k - 1 = focus THEN "#4a4a4a"
        ELSE "transparent"]

\* the call ends with an exception before the blocking wait
RaiseEarly(c, e, created) ==
    /\ pc' = "done"
    /\ call' = c
    /\ outcome' = Raise(e)
    /\ windowExists' = created
    /\ windowsCreated' = IF created THEN windowsCreated + 1 ELSE windowsCreated
    /\ UNCHANGED <<truncated_message, result_container, input_entry, selected_indices,
                   active_focus_index, item_labels_list, callback_error, lastEvent,
                   numEvents>>
    /\ UNCHANGED pickerState

_base_input_dialog(message, is_input, default_text) ==
    LET c == [NoCall EXCEPT !.shape = IF is_input THEN "prompt" ELSE "confirm",
                            !.message = message]
    IN IF Falsy(message)
       THEN RaiseEarly(c, ErrMessageRequired, FALSE)
       ELSE /\ pc' = "entering"
            /\ call' = c
            /\ windowExists' = TRUE
            /\ windowsCreated' = windowsCreated + 1
            /\ result_container' = SlotNone
            /\ truncated_message' = _truncate_message(message.text, MESSAGE_MAX_LENGTH)
            /\ input_entry' = IF is_input THEN default_text ELSE <<>>
            /\ UNCHANGED <<selected_indices, active_focus_index, item_labels_list,
                           callback_error, lastEvent, numEvents, outcome>>
            /\ UNCHANGED pickerState

\* the public dialog functions, called with a message out of `messages`
prompt_call(messages) ==
    /\ pc = "idle"
    /\ \E message \in messages, default_text \in Texts :
           _base_input_dialog(message, TRUE, default_text)

confirm_call(messages) ==
    /\ pc = "idle"
    /\ \E message \in messages : _base_input_dialog(message, FALSE, <<>>)

selection_call(messages) ==
    /\ pc = "idle"
    /\ \E message \in messages, selections_none \in BOOLEAN, n \in CandidateCounts,
          multiple \in BOOLEAN, optional \in BOOLEAN :
         LET selections == IF selections_none THEN <<>> ELSE Candidates(n)
             c == [shape |-> "selection", message |-> message,
                   selections_none |-> selections_none, selections |-> selections,
                   multiple |-> multiple, optional |-> optional]
         IN /\ selections_none => n = 0
            /\ IF selections_none
               THEN RaiseEarly(c, ErrSelectionsNone, FALSE)
               ELSE IF message.none
               \* the window exists when _truncate_message(None) fails in len()
               THEN RaiseEarly(c, ErrLenOfNone, TRUE)
               ELSE /\ pc' = "entering"
                    /\ call' = c
                    /\ windowExists' = TRUE
                    /\ windowsCreated' = windowsCreated + 1
                    /\ result_container' = SlotNone
                    /\ selected_indices' = set_new
                    /\ active_focus_index' = 0
                    /\ truncated_message' =
                           _truncate_message(message.text, MESSAGE_MAX_LENGTH)
                    /\ item_labels_list' = update_selection_visuals(
                           [k \in 1..Len(selections) |-> "transparent"], set_new, 0)
                    /\ UNCHANGED <<input_entry, callback_error, lastEvent, numEvents,
                                   outcome>>
                    /\ UNCHANGED pickerState

alert_call(messages) ==
    /\ pc = "idle"
    /\ \E message \in messages :
         LET c == [NoCall EXCEPT !.shape = "alert", !.message = message]
         IN IF message.none
            THEN RaiseEarly(c, ErrAlertMessage, FALSE)
            ELSE /\ pc' = "entering"
                 /\ call' = c
                 /\ windowExists' = TRUE
                 /\ windowsCreated' = windowsCreated + 1
                 /\ result_container' = SlotNone
                 /\ truncated_message' =
                        _truncate_message(message.text, MESSAGE_MAX_LENGTH)
                 /\ UNCHANGED <<input_entry, selected_indices, active_focus_index,
                                item_labels_list, callback_error, lastEvent,
                                numEvents, outcome>>
                 /\ UNCHANGED pickerState

prompt == prompt_call(Messages)

confirm == confirm_call(Messages)

selection == selection_call(Messages)

alert == alert_call(Messages)

(***************************************************************************)
(* The UI callbacks.  Each one states what it does to the result slot, the *)
(* selection state and the labels; an exception it raises is reported by   *)
(* Tk's callback wrapper and recorded in callback_error.                   *)
(***************************************************************************)
selectionState == <<selected_indices, active_focus_index, item_labels_list>>

\* a callback that ends by raising e: nothing it did not do before changes
CallbackRaises(e) ==
    /\ callback_error' = e
    /\ UNCHANGED <<result_container, selectionState>>

_do_cancel ==
    /\ result_container' = CANCEL_SIGNAL
    /\ callback_error' = NoError
    /\ UNCHANGED selectionState

_do_confirm(is_input) ==
    /\ result_container' = IF is_input THEN SlotStr(strip(input_entry)) ELSE SlotTrue
    /\ callback_error' = NoError
    /\ UNCHANGED selectionState

_dismiss ==
    /\ result_container' = SlotTrue
    /\ callback_error' = NoError
    /\ UNCHANGED selectionState

\* a toggle that forgets to clear the set in single-select mode
toggled_without_clear(selected, index_to_toggle, multiple) ==
    IF set_contains(selected, index_to_toggle)
    THEN set_remove(selected, index_to_toggle)
    ELSE set_add(selected, index_to_toggle)

\* the new selected set of handle_toggle_selection
toggled(selected, index_to_toggle, multiple) ==
    IF multiple
    THEN IF set_contains(selected, index_to_toggle)
         THEN set_remove(selected, index_to_toggle)
         ELSE set_add(selected, index_to_toggle)
    ELSE set_add(set_clear(selected), index_to_toggle)

handle_toggle_selection(index_to_toggle) ==
    /\ active_focus_index' = index_to_toggle
    /\ selected_indices' = toggled(selected_indices, index_to_toggle, call.multiple)
    /\ item_labels_list' = update_selection_visuals(item_labels_list,
                               selected_indices', active_focus_index')
    /\ callback_error' = NoError
    /\ UNCHANGED result_container

\* the focus index after Up (step = -1) or Down (step = 1)
moved(focus, step, n) == (focus + step) % n

handle_move(step) ==
    IF Len(call.selections) = 0
    THEN CallbackRaises(ErrZeroDivision)
    ELSE /\ active_focus_index' = moved(active_focus_index, step, Len(call.selections))
         /\ item_labels_list' = update_selection_visuals(item_labels_list,
                                    selected_indices, active_focus_index')
         /\ callback_error' = NoError
         /\ UNCHANGED <<result_container, selected_indices>>

handle_move_up == handle_move(-1)

handle_move_down == handle_move(1)

\* [selections[index] for index in selected_indices]
IndicesValid(selections, selected) ==
    \A index \in set_elements(selected) : index < Len(selections)

selected_items(selections, selected) ==
    LET order == set_iter(selected)
    IN [k \in 1..Len(order) |-> selections[order[k] + 1]]

perform_confirmation ==
    IF ~call.optional /\ set_is_empty(selected_indices)
    THEN CallbackRaises(ErrSelectionRequired)
    ELSE IF ~IndicesValid(call.selections, selected_indices)
    THEN CallbackRaises(ErrIndex)
    ELSE /\ result_container' =
                SlotList(selected_items(call.selections, selected_indices))
         /\ callback_error' = NoError
         /\ UNCHANGED selectionState

perform_cancellation ==
    /\ result_container' = CANCEL_SIGNAL
    /\ callback_error' = NoError
    /\ UNCHANGED selectionState

(***************************************************************************)
(* User events.  They are handled by the window.update() calls of the      *)
(* fade-in and of the wait loop, while the window exists.                  *)
(***************************************************************************)
Handles(name) ==
    /\ pc \in {"entering", "awaiting"}
    /\ windowExists
    /\ numEvents < MaxEvents
    /\ lastEvent' = name
    /\ numEvents' = numEvents + 1
    /\ UNCHANGED <<pc, call, windowsCreated, truncated_message, outcome>>
    /\ UNCHANGED pickerState

PressCancelButton ==
    /\ call.shape \in {"prompt", "confirm", "selection"}
    /\ Handles("cancel_button")
    /\ IF call.shape = "selection" THEN perform_cancellation ELSE _do_cancel
    /\ UNCHANGED <<windowExists, input_entry>>

PressEscape ==
    /\ Handles("escape")
    /\ CASE call.shape = "selection" -> perform_cancellation
         [] call.shape = "alert" -> _dismiss
         [] OTHER -> _do_cancel
    /\ UNCHANGED <<windowExists, input_entry>>

\* WM_DELETE_WINDOW: selection registers no handler, so Tk destroys the window
CloseWindow ==
    /\ Handles("close")
    /\ CASE call.shape = "selection" ->
                /\ windowExists' = FALSE
                /\ UNCHANGED <<result_container, selectionState, callback_error>>
         [] call.shape = "alert" -> _dismiss /\ UNCHANGED windowExists
         [] OTHER -> _do_cancel /\ UNCHANGED windowExists
    /\ UNCHANGED input_entry

PressConfirmButton ==
    /\ Handles("confirm_button")
    /\ CASE call.shape = "selection" -> perform_confirmation
         [] call.shape = "alert" -> _dismiss
         [] OTHER -> _do_confirm(call.shape = "prompt")
    /\ UNCHANGED <<windowExists, input_entry>>

PressReturn ==
    /\ Handles("return")
    /\ CASE call.shape = "selection" -> perform_confirmation
         [] call.shape = "alert" -> _dismiss
         [] OTHER -> _do_confirm(call.shape = "prompt")
    /\ UNCHANGED <<windowExists, input_entry>>

ClickItem ==
    /\ call.shape = "selection"
    /\ Handles("click")
    /\ \E index \in 0..(Len(call.selections) - 1) : handle_toggle_selection(index)
    /\ UNCHANGED <<windowExists, input_entry>>

PressSpace ==
    /\ call.shape = "selection"
    /\ Handles("space")
    /\ handle_toggle_selection(active_focus_index)
    /\ UNCHANGED <<windowExists, input_entry>>

PressUp ==
    /\ call.shape = "selection"
    /\ Handles("up")
    /\ handle_move_up
    /\ UNCHANGED <<windowExists, input_entry>>

PressDown ==
    /\ call.shape = "selection"
    /\ Handles("down")
    /\ handle_move_down
    /\ UNCHANGED <<windowExists, input_entry>>

\* the user edits the entry of a prompt
TypeText ==
    /\ call.shape = "prompt"
    /\ Handles("type")
    /\ \E text \in Texts : input_entry' = text
    /\ UNCHANGED <<windowExists, result_container, selectionState, callback_error>>

(***************************************************************************)
(* The blocking wait and the end of the call.                              *)
(***************************************************************************)
\* the fade-in ends; on a destroyed window its Tk calls raise TclError,
\* which nothing catches
_force_foreground ==
    /\ pc = "entering"
    /\ IF windowExists
       THEN pc' = "awaiting" /\ UNCHANGED outcome
       ELSE pc' = "done" /\ outcome' = Raise(ErrTcl)
    /\ UNCHANGED <<call, windowExists, windowsCreated, truncated_message,
                   result_container, input_entry, selectionState, callback_error,
                   lastEvent, numEvents>>
    /\ UNCHANGED pickerState

\* the wait loop ends: the slot is no longer None, or app.update() raised
\* on a destroyed window and the loop broke
LoopEnds(slot, exists) == slot.tag # "None" \/ ~exists

_block_process_until_result ==
    /\ pc = "awaiting"
    /\ LoopEnds(result_container, windowExists)
    /\ pc' = "exiting"
    /\ UNCHANGED <<call, windowExists, windowsCreated, truncated_message,
                   result_container, input_entry, selectionState, callback_error,
                   lastEvent, numEvents, outcome>>
    /\ UNCHANGED pickerState

\* _safe_finish: the window is gone afterwards, errors are swallowed
_safe_finish == windowExists' = FALSE

\* a classification that raises on cancellation for confirm dialogs too
_base_input_dialog_result_always_raises(final_value, is_input) ==
    IF final_value = CANCEL_SIGNAL THEN Raise(ErrCanceled)
    ELSE IF is_input /\ final_value.tag = "str" THEN ReturnStr(final_value.s)
    ELSE IF is_input /\ final_value.tag = "None" THEN Raise(ErrBlankInput)
    ELSE ReturnBool(final_value.tag # "None")

\* the classification of final_value at the end of _base_input_dialog
_base_input_dialog_result(final_value, is_input) ==
    IF final_value = CANCEL_SIGNAL
    THEN IF is_input THEN Raise(ErrCanceled) ELSE ReturnBool(FALSE)
    ELSE IF is_input
         THEN IF final_value.tag = "str" THEN ReturnStr(final_value.s)
              ELSE IF final_value.tag = "None" THEN Raise(ErrBlankInput)
              ELSE ReturnBool(TRUE)
         ELSE ReturnBool(final_value.tag # "None")

\* a result that skips the test for the cancellation sentinel
selection_result_without_cancel(final_result, selections, selected) ==
    IF ~IndicesValid(selections, selected) THEN Raise(ErrIndex)
    ELSE ReturnList(selected_items(selections, selected))

\* the result of selection: None for the sentinel, else the selected items
selection_result(final_result, selections, selected) ==
    IF final_result = CANCEL_SIGNAL THEN ReturnNone
    ELSE IF ~IndicesValid(selections, selected) THEN Raise(ErrIndex)
    ELSE ReturnList(selected_items(selections, selected))

Exits ==
    /\ pc = "exiting"
    /\ pc' = "done"
    /\ _safe_finish
    /\ UNCHANGED <<call, windowsCreated, truncated_message, result_container,
                   input_entry, selectionState, callback_error, lastEvent, numEvents>>
    /\ UNCHANGED pickerState

_base_input_dialog_return ==
    /\ call.shape \in {"prompt", "confirm"}
    /\ Exits
    /\ outcome' = _base_input_dialog_result(result_container, call.shape = "prompt")

selection_return ==
    /\ call.shape = "selection"
    /\ Exits
    /\ outcome' = selection_result(result_container, call.selections, selected_indices)

\* after _safe_finish, winfo_exists() on the destroyed window either
\* answers or raises TclError, depending on the Tk build
_base_alert_dialog_return ==
    /\ call.shape = "alert"
    /\ Exits
    /\ outcome' \in {ReturnNone, Raise(ErrTcl)}

Next ==
    \/ prompt
    \/ confirm
    \/ selection
    \/ alert
    \/ PressCancelButton
    \/ PressEscape
    \/ CloseWindow
    \/ PressConfirmButton
    \/ PressReturn
    \/ ClickItem
    \/ PressSpace
    \/ PressUp
    \/ PressDown
    \/ TypeText
    \/ _force_foreground
    \/ _block_process_until_result
    \/ _base_input_dialog_return
    \/ selection_return
    \/ _base_alert_dialog_return

Spec == Init /\ [][Next]_vars

(***************************************************************************)
(* folder_picker: the command line, then the picker process and what the   *)
(* function makes of its outcome.                                          *)
(***************************************************************************)
\* Optional[str] arguments: None, "" or a one-character text
PickerTexts == {NoneStr, Str(<<>>), Str(<<"d">>)}

\* lines 52-62: the command line, one <<flag, value>> per argument
BoolText(b) == IF b THEN "true" ELSE "false"

build_command(initialdir, return_full_paths, title, multi_folder) ==
    <<<<"EXE_PATH", <<>>>>>>
    \o (IF Falsy(initialdir) THEN <<>> ELSE <<<<"--default_path", initialdir.text>>>>)
    \o <<<<"--return_full_paths", BoolText(return_full_paths)>>>>
    \o (IF Falsy(title) THEN <<>> ELSE <<<<"--title", title.text>>>>)
    \o <<<<"--multi-folder", BoolText(multi_folder)>>>>

folder_picker_command ==
    /\ picker_pc = "idle"
    /\ \E initialdir \in PickerTexts, title \in PickerTexts,
          return_full_paths \in BOOLEAN, multi_folder \in BOOLEAN :
          command' = build_command(initialdir, return_full_paths, title, multi_folder)
    /\ picker_pc' = "spawning"
    /\ UNCHANGED <<process, printed, picked>>
    /\ UNCHANGED dialogState

\* lines 64-94: what folder_picker prints for a process outcome
picker_prints(p) ==
    IF p.launch = "FileNotFoundError" THEN <<[line |-> "Picker EXE not found", text |-> <<>>]>>
    ELSE IF p.launch # "started" THEN <<>>
    ELSE IF p.returncode # 0
    THEN <<[line |-> "Error running folder picker",
            text |-> IF p.stderr # <<>> THEN strip(p.stderr)
                     ELSE <<"CalledProcessError">>]>>
    ELSE (IF p.stderr # <<>>
          THEN <<[line |-> "Picker STDERR", text |-> strip(p.stderr)]>> ELSE <<>>)
         \o (IF strip(p.stdout) # <<>> /\ ~json_loads(strip(p.stdout)).ok
             THEN <<[line |-> "Picker output was not valid JSON", text |-> <<>>]>>
             ELSE <<>>)

\* lines 64-94: how folder_picker ends for a process outcome
picker_result(p) ==
    IF p.launch = "FileNotFoundError" THEN PickerReturns(<<>>)
    \* only FileNotFoundError is caught among the errors of starting a process
    ELSE IF p.launch # "started" THEN PickerRaises(p.launch)
    ELSE IF p.returncode # 0 THEN PickerReturns(<<>>)
    ELSE LET json_output == strip(p.stdout)
             parsed == json_loads(json_output)
         IN IF json_output = <<>> THEN PickerReturns(<<>>)
            ELSE IF ~parsed.ok THEN PickerReturns(<<>>)
            ELSE IF parsed.val.type = "list" THEN PickerReturns(parsed.val.items)
            ELSE PickerReturns(<<>>)

folder_picker_run ==
    /\ picker_pc = "spawning"
    /\ \E p \in ProcessOutcomes :
          /\ process' = p
          /\ printed' = picker_prints(p)
          /\ picked' = picker_result(p)
    /\ picker_pc' = "done"
    /\ UNCHANGED command
    /\ UNCHANGED dialogState

PickerNext ==
    \/ folder_picker_command
    \/ folder_picker_run

PickerSpec == Init /\ [][PickerNext]_vars

(***************************************************************************)
(* The message display: every dialog function called with messages around  *)
(* MESSAGE_MAX_LENGTH, up to the moment the window is about to be shown.   *)
(***************************************************************************)
prompt_display == prompt_call(DisplayMessages)

confirm_display == confirm_call(DisplayMessages)

selection_display == selection_call(DisplayMessages)

alert_display == alert_call(DisplayMessages)

DisplayNext ==
    \/ prompt_display
    \/ confirm_display
    \/ selection_display
    \/ alert_display

DisplaySpec == Init /\ [][DisplayNext]_vars

(***************************************************************************)
(* Vocabulary of the properties.                                           *)
(***************************************************************************)
Dismissals == {"cancel_button", "escape", "close"}
Acceptances == {"confirm_button", "return"}
Toggles == {"click", "space"}
CancellableShapes == {"prompt", "confirm", "selection"}

\* the call got past its argument checks and built its window
Opened == windowsCreated > 0

\* a confirmed outcome: a returned text, a returned true or a returned list
ConfirmedOutcome(o) ==
    /\ o.tag = "return"
    /\ o.type = "str" \/ o.type = "list" \/ (o.type = "bool" /\ o.b)

AllSpaces(t) == \A k \in 1..Len(t) : t[k] = " "

\* r is t without its leading and trailing whitespace
IsTrimOf(r, t) ==
    /\ r = <<>> \/ (r[1] # " " /\ r[Len(r)] # " ")
    /\ \E i \in 0..Len(t) :
          /\ i + Len(r) <= Len(t)
          /\ AllSpaces(SubSeq(t, 1, i))
          /\ SubSeq(t, i + 1, i + Len(r)) = r
          /\ AllSpaces(SubSeq(t, i + Len(r) + 1, Len(t)))

\* the candidates whose index is selected, in candidate order
InCandidateOrder(selections, selected) ==
    SelectSeq(selections, LAMBDA item :
        \E index \in set_elements(selected) : item = Item(index))

(***************************************************************************)
(* C1: every dialog shape called with a message that is None or "" fails   *)
(* with an InvalidArgument error, and no window has been created when the  *)
(* error is raised.                                                        *)
(***************************************************************************)
C1_EmptyMessageRejected ==
    (call.shape # "none" /\ Falsy(call.message)) =>
        /\ pc = "done"
        /\ outcome.tag = "raise"
        /\ outcome.err \in InvalidArgument
        /\ windowsCreated = 0

(***************************************************************************)
(* C2: in prompt, confirm and selection, a cancel button press, Escape or  *)
(* a window close handled while the dialog awaits its result leaves the    *)
(* cancellation sentinel in the result slot, and a call that ends after    *)
(* such an event does not end with a confirmed outcome.                    *)
(***************************************************************************)
C2_DismissalCancels ==
    (call.shape \in CancellableShapes /\ lastEvent \in Dismissals) =>
        /\ pc \in {"awaiting", "exiting"} => result_container = CANCEL_SIGNAL
        /\ pc = "done" => ~ConfirmedOutcome(outcome)

(***************************************************************************)
(* C3 as stated: a selection call whose wait ended with the cancellation   *)
(* sentinel in the result slot ends by raising DialogCancelled.            *)
(***************************************************************************)
C3_CancelRaisesDialogCancelled ==
    [][(pc = "exiting" /\ call.shape = "selection"
            /\ result_container = CANCEL_SIGNAL)
        => (outcome'.tag = "raise" /\ outcome'.err \in DialogCancelled)]_vars

(***************************************************************************)
(* C3 as amended: a selection call whose wait ended with the cancellation  *)
(* sentinel in the result slot returns None and raises nothing, and None   *)
(* is returned in no other case.                                           *)
(***************************************************************************)
C3_CancelReturnsNone ==
    [][(pc = "exiting" /\ call.shape = "selection")
        => (outcome' = ReturnNone <=> result_container = CANCEL_SIGNAL)]_vars

C3_Witness ==
    /\ pc = "done"
    /\ call.shape = "selection"
    /\ lastEvent = "escape"
    /\ result_container = CANCEL_SIGNAL
    /\ outcome = ReturnNone

(***************************************************************************)
(* C4: a prompt that ends after a confirmation returns the entry's text    *)
(* without its surrounding whitespace ("" for an empty or whitespace-only  *)
(* entry); a prompt that ends after a cancellation raises DialogCancelled; *)
(* a prompt returns only what a confirmation stored and raises             *)
(* DialogCancelled only for the cancellation sentinel.                     *)
(***************************************************************************)
C4_PromptResult ==
    (call.shape = "prompt" /\ pc = "done" /\ Opened) =>
        /\ lastEvent \in Acceptances =>
              /\ outcome.tag = "return"
              /\ outcome.type = "str"
              /\ IsTrimOf(outcome.s, input_entry)
        /\ lastEvent \in Dismissals => outcome = Raise(ErrCanceled)
        /\ outcome.tag = "return" => outcome = ReturnStr(result_container.s)
        /\ outcome.tag = "return" <=> result_container.tag = "str"
        /\ outcome.tag = "raise" <=> result_container = CANCEL_SIGNAL

C4_Witness ==
    /\ pc = "done"
    /\ call.shape = "prompt"
    /\ lastEvent = "return"
    /\ input_entry = <<" ", " ">>
    /\ outcome = ReturnStr(<<>>)

(***************************************************************************)
(* C5: a confirm dialog that ends after Escape, a window close or the No   *)
(* button returns false and raises nothing; one that ends after the Yes    *)
(* button or Return returns true.                                          *)
(***************************************************************************)
C5_ConfirmResult ==
    (call.shape = "confirm" /\ pc = "done" /\ Opened) =>
        /\ outcome.tag = "return"
        /\ outcome.type = "bool"
        /\ lastEvent \in Dismissals => outcome.b = FALSE
        /\ lastEvent \in Acceptances => outcome.b = TRUE

C5_Witness ==
    /\ pc = "done"
    /\ call.shape = "confirm"
    /\ lastEvent = "close"
    /\ outcome = ReturnBool(FALSE)

(***************************************************************************)
(* C6: once a selection dialog with optional = false has handled a         *)
(* confirmation (Confirm button or Return) on an empty selected set, the   *)
(* call has failed with SelectionRequired raised to the caller; with       *)
(* optional = true a call that ends after such a confirmation returns the  *)
(* empty list.                                                             *)
(***************************************************************************)
C6_EmptyConfirmRaises ==
    (call.shape = "selection" /\ lastEvent \in Acceptances
        /\ set_is_empty(selected_indices)) =>
        IF call.optional
        THEN pc = "done" => outcome = ReturnList(<<>>)
        ELSE /\ pc = "done"
             /\ outcome.tag = "raise"
             /\ outcome.err \in SelectionRequired

(***************************************************************************)
(* C7: the list a selection call returns holds exactly the selected        *)
(* candidates, in the order of the caller's candidate list.                *)
(***************************************************************************)
C7_ResultInCandidateOrder ==
    (call.shape = "selection" /\ pc = "done" /\ outcome.tag = "return"
        /\ outcome.type = "list") =>
        outcome.s = InCandidateOrder(call.selections, selected_indices)

(***************************************************************************)
(* C8: in single-select mode the selected set never has more than one      *)
(* element, and right after a click or Space it is exactly the set of the  *)
(* toggled item (which the handler also makes the focused item).           *)
(***************************************************************************)
C8_SingleSelect ==
    (call.shape = "selection" /\ ~call.multiple) =>
        /\ Cardinality(set_elements(selected_indices)) <= 1
        /\ lastEvent \in Toggles =>
              set_elements(selected_indices) = {active_focus_index}

C8_Witness ==
    /\ call.shape = "selection"
    /\ ~call.multiple
    /\ lastEvent = "click"
    /\ numEvents >= 2
    /\ set_iter(selected_indices) = <<1>>

(***************************************************************************)
(* C9: a dialog call that created its window has destroyed it when the     *)
(* call ends, whether it returns or raises.                                *)
(***************************************************************************)
C9_WindowDestroyedAtEnd ==
    (pc = "done" /\ Opened) => ~windowExists

(***************************************************************************)
(* C10: when the blocking wait has ended, and when the call has returned   *)
(* after it, the result slot holds a value other than None.                *)
(***************************************************************************)
C10_WaitEndsWithResult ==
    (pc = "exiting" \/ (pc = "done" /\ outcome.tag = "return")) =>
        result_container # SlotNone

(***************************************************************************)
(* C13: the list a selection call returns is the list the confirmation     *)
(* stored in the result slot, that is, the selected items as they were     *)
(* when the confirmation ran; toggles handled after it change nothing.     *)
(***************************************************************************)
C13_ResultReadAtConfirmation ==
    (call.shape = "selection" /\ pc = "done" /\ outcome.tag = "return"
        /\ outcome.type = "list" /\ result_container.tag = "list") =>
        outcome.s = result_container.s

(***************************************************************************)
(* C14: in a selection dialog over n candidates Down moves the focus index *)
(* f to (f + 1) mod n and Up moves it to (f - 1) mod n, neither changes    *)
(* the selected set, and after every Up, Down, click or Space the focus    *)
(* index is within 0..n-1.                                                 *)
(***************************************************************************)
C14_FocusMovesCircularly ==
    [][(call.shape = "selection" /\ numEvents' = numEvents + 1) =>
        LET n == Len(call.selections)
            step == IF lastEvent' = "down" THEN 1 ELSE -1
        IN /\ lastEvent' \in {"up", "down"} =>
                 /\ n > 0
                 /\ active_focus_index' = (active_focus_index + step) % n
                 /\ selected_indices' = selected_indices
           /\ lastEvent' \in {"up", "down", "click", "space"} =>
                 active_focus_index' \in 0..(n - 1)]_vars

(***************************************************************************)
(* C15: in every state of a selection dialog, whatever the candidate list  *)
(* (the empty list included), every index in the selected set is an index  *)
(* of the candidate list.                                                  *)
(***************************************************************************)
C15_SelectedIndicesValid ==
    call.shape = "selection" =>
        \A index \in set_elements(selected_indices) :
            0 <= index /\ index < Len(call.selections)

(***************************************************************************)
(* C12: the text a dialog shows for a message longer than 500 characters   *)
(* is the first 497 characters of the message followed by "...", 500       *)
(* characters in all; a message of at most 500 characters is shown         *)
(* unchanged.                                                              *)
(***************************************************************************)
C12_MessageTruncation ==
    (pc = "entering" /\ ~call.message.none) =>
        LET message == call.message.text
        IN IF Len(message) > 500
           THEN /\ Len(truncated_message) = 500
                /\ \A i \in 1..497 : truncated_message[i] = message[i]
                /\ \A i \in 498..500 : truncated_message[i] = "."
           ELSE truncated_message = message

C12_Witness ==
    /\ pc = "entering"
    /\ call.shape = "selection"
    /\ Len(call.message.text) = 502
    /\ Len(truncated_message) = 500
    /\ truncated_message[497] = call.message.text[497]
    /\ truncated_message[498] = "."


(***************************************************************************)
(* C11: folder_picker never lets an error escape to its caller and maps    *)
(* every outcome of the picker process to a list: an empty trimmed output  *)
(* gives the empty list, a JSON array gives that array, another JSON value *)
(* gives the empty list, and an executable that is not found, a non-zero   *)
(* exit code or malformed JSON give the empty list after a report.         *)
(***************************************************************************)
C11_PickerAlwaysReturnsList ==
    picker_pc = "done" =>
        LET json_output == strip(process.stdout)
            parsed == json_loads(json_output)
            succeeded == process.launch = "started" /\ process.returncode = 0
        IN /\ picked.tag = "return"
           /\ (succeeded /\ json_output = <<>>) => picked.list = <<>>
           /\ (succeeded /\ parsed.ok /\ parsed.val.type = "list") =>
                  picked.list = parsed.val.items
           /\ (succeeded /\ parsed.ok /\ parsed.val.type # "list") =>
                  picked.list = <<>>
           /\ (~succeeded \/ (json_output # <<>> /\ ~parsed.ok)) =>
                  /\ picked.list = <<>>
                  /\ printed # <<>>

==========================================================================
